---- MODULE Spec2Model ----
(***************************************************************************)
(* Model of packages/client/src/controllers/state.ts: the State store, an  *)
(* in-memory Map of topic -> sequence with a restore gate and write-through *)
(* persistence to client.storage.                                          *)
(*                                                                         *)
(* Every async method is cut at its await points: each action below is one *)
(* synchronous run of JavaScript between two awaits.  Calls are made by    *)
(* MaxCalls call slots; a slot is idle until a call is issued on it.       *)
(***************************************************************************)
EXTENDS Integers, Sequences, FiniteSets, TLC

\* number of calls (init/set/get/update/delete) issued over the store's life
MaxCalls == 3

Procs == 1..MaxCalls

\* the topics calls are made for; snapshots also hold a record of topic "t2",
\* which no call names: it is the other entry of the map
Called == {"t1"}

\* reasons passed to delete
Reasons == {"expired"}

\* the records callers pass to set(topic, sequence)
NewSequence(t) == [topic |-> t, v |-> 2]

\* the partial updates callers pass to update(topic, update)
Patches == {[w |-> 1]}

\* a null element of a stored list: reading its topic throws a TypeError
Null == [null |-> TRUE]

\* a character of a stored string: a string has a length and no forEach
Char(ch) == [char |-> ch]

\* what client.storage holds under the storage key before the store is built:
\* nothing, an empty list, a list of records with distinct topics, a list
\* with a null between its records, or a value that is not a list (the
\* string 'abc'); `array` tells a list from any other value with a length
InitialSnapshots ==
  { [defined |-> FALSE, array |-> TRUE, items |-> <<>>],
    [defined |-> TRUE, array |-> TRUE, items |-> <<>>],
    [defined |-> TRUE, array |-> TRUE, items |-> <<[topic |-> "t1", v |-> 1]>>],
    [defined |-> TRUE, array |-> TRUE,
     items |-> <<[topic |-> "t1", v |-> 1], [topic |-> "t2", v |-> 1]>>],
    [defined |-> TRUE, array |-> TRUE,
     items |-> <<[topic |-> "t1", v |-> 1], Null, [topic |-> "t2", v |-> 1]>>],
    [defined |-> TRUE, array |-> FALSE,
     items |-> <<Char("a"), Char("b"), Char("c")>>] }

VARIABLES
  sequences,  \* this.sequences: the Map, as its list of entries in insertion order
  cached,     \* this.cached
  events,     \* every event emitted on this.events, in order
  storage,    \* what client.storage holds under getStorageKey()
  writes,     \* storage.setItem calls in flight: the value each one carries
  calls,      \* the calls in progress: method, arguments, position
  last,       \* the call that ended most recently, as it ended
  tally       \* what has settled so far: whether an init() returned, and how
              \* many setItem calls resolved

vars == <<sequences, cached, events, storage, writes, calls, last, tally>>

----------------------------------------------------------------------------
\* The JavaScript Map

has(m, t) == \E i \in 1..Len(m) : m[i].key = t

indexOf(m, t) == CHOOSE i \in 1..Len(m) : m[i].key = t

\* Map.get: the value as a one-element tuple, or <<>> for undefined
mapGet(m, t) == IF has(m, t) THEN <<m[indexOf(m, t)].value>> ELSE <<>>

\* Map.set: an existing key keeps its place, a new key goes last
mapSet(m, t, s) ==
  IF has(m, t) THEN [m EXCEPT ![indexOf(m, t)].value = s]
  ELSE Append(m, [key |-> t, value |-> s])

\* variant: delete empties the whole map
mapClear(m, t) == <<>>

mapDelete(m, t) == SelectSeq(m, LAMBDA e : e.key # t)

length(m) == Len(m)

topics(m) == [i \in 1..Len(m) |-> m[i].key]

values(m) == [i \in 1..Len(m) |-> m[i].value]

\* variant: { ...update, ...sequence }
spreadReversed(sequence, update) ==
  [f \in DOMAIN sequence \cup DOMAIN update |->
     IF f \in DOMAIN sequence THEN sequence[f] ELSE update[f]]

\* { ...sequence, ...update }
spread(sequence, update) ==
  [f \in DOMAIN sequence \cup DOMAIN update |->
     IF f \in DOMAIN update THEN update[f] ELSE sequence[f]]

----------------------------------------------------------------------------
\* Pure parts of the methods

\* isEnabled's test: the caller passes at once when this.cached is empty,
\* and otherwise waits for the next enabled event
isEnabled(c) == Len(c) = 0

\* variant: getState returns undefined instead of throwing
getStateNoThrow(m, t) == IF has(m, t) THEN mapGet(m, t) ELSE << <<>> >>

\* getState's lookup: the record as a one-element tuple, <<>> when it throws
\* NO_MATCHING_TOPIC
getState(m, t) == mapGet(m, t)

\* the callback of restore's forEach throws on an element whose topic cannot
\* be read
throws(s) == s = Null

\* the elements restore's forEach visits before it throws: none of a value
\* that has no forEach, those ahead of the first null of a list
RECURSIVE visited(_, _)
visited(list, array) ==
  IF ~array \/ Len(list) = 0 \/ throws(Head(list)) THEN <<>>
  ELSE <<Head(list)>> \o visited(Tail(list), array)

\* restore's forEach: every element visited is set under its own topic
RECURSIVE populate(_, _)
populate(m, list) ==
  IF Len(list) = 0 THEN m
  ELSE populate(mapSet(m, Head(list).topic, Head(list)), Tail(list))

\* variant: restore without the test of this.sequences.size
restoreOverrides(m, c, persisted) ==
  LET seen == visited(persisted.items, persisted.array)
  IN IF ~persisted.defined THEN [sequences |-> m, cached |-> c, outcome |-> "absent"]
     ELSE IF Len(persisted.items) = 0
       THEN [sequences |-> m, cached |-> c, outcome |-> "empty"]
     ELSE IF Len(seen) < Len(persisted.items)
       THEN [sequences |-> populate(m, seen), cached |-> persisted.items,
             outcome |-> "malformed"]
     ELSE [sequences |-> populate(m, seen), cached |-> persisted.items,
           outcome |-> "restored"]

\* restore, from the value storage.getItem resolved with to the map and the
\* this.cached it has written when it calls enable or its catch block runs:
\* this.cached is assigned before the forEach, so a forEach that throws
\* leaves it holding the snapshot, and the map holding what was set so far
restore(m, c, persisted) ==
  LET seen == visited(persisted.items, persisted.array)
  IN IF ~persisted.defined THEN [sequences |-> m, cached |-> c, outcome |-> "absent"]
     ELSE IF Len(persisted.items) = 0
       THEN [sequences |-> m, cached |-> c, outcome |-> "empty"]
     ELSE IF length(m) # 0 THEN [sequences |-> m, cached |-> c, outcome |-> "conflict"]
     ELSE IF Len(seen) < Len(persisted.items)
       THEN [sequences |-> populate(m, seen), cached |-> persisted.items,
             outcome |-> "malformed"]
     ELSE [sequences |-> populate(m, seen), cached |-> persisted.items,
           outcome |-> "restored"]

\* restore's try/catch: how init settles for each way restore ends
restoreSettles(outcome) == "ok"

\* variant: enable empties this.cached and emits nothing
enableSilently(c, evs) == [cached |-> <<>>, events |-> evs]

\* enable: this.cached is emptied, then enabled is emitted
enable(c, evs) == [cached |-> <<>>, events |-> Append(evs, [type |-> "enabled"])]

\* variant: delete without its early return
deleteNeverReturns(m, t) == FALSE

\* delete's early return
deleteReturns(m, t) == ~has(m, t)

\* persist: the setItem call it issues carries this.values
persist(w, m) == Append(w, values(m))

\* (mutant) persist emitting sync in a finally block, resolved or not
persistAlwaysSyncs(evs, resolved) == Append(evs, [type |-> "sync"])

\* persist after its await: sync is emitted when setItem resolved, and nothing
\* when it rejected (persist throws there)
persistSettles(evs, resolved) ==
  IF resolved THEN Append(evs, [type |-> "sync"]) ELSE evs

\* (mutant) set taking its else branch whatever the map holds
setNeverDelegates(m, t) == FALSE

\* set's test of this.sequences.has(topic): the call goes to update
setDelegates(m, t) == has(m, t)

\* the store's own listeners: created, updated and deleted each call persist
listeners(ev, w, m) ==
  IF ev.type \in {"created", "updated", "deleted"} THEN persist(w, m) ELSE w

----------------------------------------------------------------------------
\* Call slots

IdleCall ==
  [slot |-> 0, op |-> "none", fn |-> "none", topic |-> "", arg |-> <<>>, reason |-> "",
   pc |-> "idle", waiting |-> FALSE, ret |-> "none", val |-> <<>>, loc |-> <<>>,
   outcome |-> "none", prev |-> <<>>, inRestore |-> 0]

\* a slot whose call has ended keeps nothing of it
EndedCall == [IdleCall EXCEPT !.pc = "ended"]

\* a call issued on slot p
NewCall(p, op) == [IdleCall EXCEPT !.slot = p, !.op = op, !.fn = op]

\* slot p moves to c; a call that is done leaves its slot and, its promise
\* being the caller's (op = fn), becomes `last`; the update that set started
\* without await (op "set", fn "update") settles no promise of a caller
Step(cs, p, c) ==
  /\ calls' = [cs EXCEPT ![p] = IF c.pc = "done" THEN EndedCall ELSE c]
  /\ last' = IF c.pc = "done" /\ c.op = c.fn THEN c ELSE last
  /\ tally' = [tally EXCEPT !.inited = @ \/ (c.pc = "done" /\ c.op = "init")]

\* slots are used in order
CanIssue(p) ==
  /\ calls[p].pc = "idle"
  /\ \A q \in Procs : q < p => calls[q].pc # "idle"

\* a slot can run: it stands at pc and is not waiting for enabled
At(p, fn, pc) ==
  /\ calls[p].fn = fn
  /\ calls[p].pc = pc
  /\ ~calls[p].waiting

\* the enabled event resolves every promise isEnabled left waiting
release(cs) == [p \in Procs |-> [cs[p] EXCEPT !.waiting = FALSE]]

RemoveAt(s, i) == [j \in 1..(Len(s) - 1) |-> IF j < i THEN s[j] ELSE s[j + 1]]

Init ==
  /\ sequences = <<>>
  /\ cached = <<>>
  /\ events = <<>>
  /\ storage \in InitialSnapshots
  /\ writes = <<>>
  /\ calls = [p \in Procs |-> IdleCall]
  /\ last = IdleCall
  /\ tally = [inited |-> FALSE, written |-> 0]

----------------------------------------------------------------------------
\* init and restore

\* slot p has a run to go
Running(p) == calls[p].pc \notin {"idle", "ended"}

\* the promise of the call made on slot p has not settled: set's promise
\* settles in the run after its gate, also when it started an update
InProgress(p) == Running(p) /\ calls[p].op = calls[p].fn

\* the slot of an init that is reading a snapshot holding topic t into the
\* empty map, 0 if none
RestoringSlot(t) ==
  LET reading == {i \in Procs : calls[i].fn = "init" /\ calls[i].pc = "read"}
  IN IF /\ reading # {}
        /\ length(sequences) = 0
        /\ storage.defined
        /\ \E k \in 1..Len(storage.items) :
              /\ "topic" \in DOMAIN storage.items[k]
              /\ storage.items[k].topic = t
     THEN CHOOSE i \in reading : \A j \in reading : i <= j
     ELSE 0

\* what a call follows: the call whose promise settled last, when no promise
\* of a call is pending as this one is issued; <<>> otherwise
Follows ==
  IF last.op # "none" /\ \A q \in Procs : ~InProgress(q)
  THEN <<[op |-> last.op, topic |-> last.topic, outcome |-> last.outcome,
          arg |-> last.arg]>>
  ELSE <<>>

\* init(): restore() issues storage.getItem and awaits it
CallInit(p) ==
  /\ CanIssue(p)
  /\ Step(calls, p, [NewCall(p, "init") EXCEPT !.pc = "read", !.prev = Follows])
  /\ UNCHANGED <<sequences, cached, events, storage, writes>>

\* getItem resolves: restore runs without a break from the undefined test to
\* `await this.enable()`, where this.cached is cleared within the same step, or
\* to the catch block, which a forEach that threw reaches with this.cached
\* still holding the snapshot
RestoreRead(p) ==
  /\ At(p, "init", "read")
  /\ LET r == restore(sequences, cached, storage)
         restored == r.outcome = "restored"
         e == enable(r.cached, events)
     IN /\ sequences' = r.sequences
        /\ cached' = IF restored THEN e.cached ELSE r.cached
        /\ events' = IF restored THEN e.events ELSE events
        /\ Step(IF restored THEN release(calls) ELSE calls, p,
                [calls[p] EXCEPT !.outcome = r.outcome,
                                 !.pc = IF restored THEN "enabling" ELSE "return"])
  /\ UNCHANGED <<storage, writes>>

\* getItem rejects: the catch block logs and restore returns
RestoreFail(p) ==
  /\ At(p, "init", "read")
  /\ Step(calls, p, [calls[p] EXCEPT !.outcome = "failed", !.pc = "return"])
  /\ UNCHANGED <<sequences, cached, events, storage, writes>>

\* after `await this.enable()`: the two log lines, then restore returns
RestoreDone(p) ==
  /\ At(p, "init", "enabling")
  /\ Step(calls, p, [calls[p] EXCEPT !.pc = "return"])
  /\ UNCHANGED <<sequences, cached, events, storage, writes>>

\* init after `await this.restore()`: restore has settled, init returns
InitReturn(p) ==
  /\ At(p, "init", "return")
  /\ Step(calls, p, [calls[p] EXCEPT !.pc = "done",
                                     !.ret = restoreSettles(calls[p].outcome)])
  /\ UNCHANGED <<sequences, cached, events, storage, writes>>

----------------------------------------------------------------------------
\* persistence writes in flight

\* a setItem resolves: the storage holds its value, persist emits sync
WriteDone(i) ==
  /\ i \in 1..Len(writes)
  /\ storage' = [defined |-> TRUE, array |-> TRUE, items |-> writes[i]]
  /\ writes' = RemoveAt(writes, i)
  /\ events' = persistSettles(events, TRUE)
  /\ tally' = [tally EXCEPT !.written = @ + 1]
  /\ UNCHANGED <<sequences, cached, calls, last>>

\* a setItem rejects: persist ends there, nothing is emitted
WriteFail(i) ==
  /\ i \in 1..Len(writes)
  /\ writes' = RemoveAt(writes, i)
  /\ events' = persistSettles(events, FALSE)
  /\ UNCHANGED <<sequences, cached, storage, calls, last, tally>>

----------------------------------------------------------------------------
\* set, get, update, delete: each starts by calling isEnabled and awaiting it

CallSet(p, t) ==
  /\ CanIssue(p)
  /\ Step(calls, p, [NewCall(p, "set") EXCEPT !.topic = t, !.arg = <<NewSequence(t)>>,
                       !.pc = "gate", !.waiting = ~isEnabled(cached)])
  /\ UNCHANGED <<sequences, cached, events, storage, writes>>

CallGet(p, t) ==
  /\ CanIssue(p)
  /\ Step(calls, p, [NewCall(p, "get") EXCEPT !.topic = t,
                       !.pc = "gate", !.waiting = ~isEnabled(cached),
                       !.prev = Follows, !.inRestore = RestoringSlot(t)])
  /\ UNCHANGED <<sequences, cached, events, storage, writes>>

CallUpdate(p, t, u) ==
  /\ CanIssue(p)
  /\ Step(calls, p, [NewCall(p, "update") EXCEPT !.topic = t, !.arg = <<u>>,
                       !.pc = "gate", !.waiting = ~isEnabled(cached)])
  /\ UNCHANGED <<sequences, cached, events, storage, writes>>

CallDelete(p, t, r) ==
  /\ CanIssue(p)
  /\ Step(calls, p, [NewCall(p, "delete") EXCEPT !.topic = t, !.reason = r,
                       !.pc = "gate", !.waiting = ~isEnabled(cached)])
  /\ UNCHANGED <<sequences, cached, events, storage, writes>>

\* how the caller's promise settles when the running method ends with result:
\* the update that set started without awaiting it settles nothing of set's
settle(c, result) == IF c.op = c.fn THEN result ELSE c.ret

\* set past its gate: a topic already there goes to update(topic, sequence),
\* which runs up to its own isEnabled, and set returns: its promise settles
\* here while the slot goes on as that update; otherwise created is emitted
\* (this.sequences is not written on this branch) and set returns
SetBody(p) ==
  /\ At(p, "set", "gate")
  /\ LET c == calls[p]
         ev == [type |-> "created", topic |-> c.topic, sequence |-> c.arg[1]]
     IN IF setDelegates(sequences, c.topic)
        THEN /\ calls' = [calls EXCEPT ![p] =
                            [c EXCEPT !.fn = "update", !.ret = "ok", !.pc = "gate",
                                      !.waiting = ~isEnabled(cached)]]
             /\ last' = [c EXCEPT !.pc = "done", !.ret = "ok",
                                  !.outcome = "delegated"]
             /\ UNCHANGED <<events, writes, tally>>
        ELSE /\ events' = Append(events, ev)
             /\ writes' = listeners(ev, writes, sequences)
             /\ Step(calls, p, [c EXCEPT !.pc = "done", !.ret = "ok",
                                         !.outcome = "created"])
  /\ UNCHANGED <<sequences, cached, storage>>

\* get past its gate: calls getState, which awaits isEnabled
GetBody(p) ==
  /\ At(p, "get", "gate")
  /\ Step(calls, p, [calls[p] EXCEPT !.pc = "getState", !.waiting = ~isEnabled(cached)])
  /\ UNCHANGED <<sequences, cached, events, storage, writes>>

\* update past its gate: calls getState, which awaits isEnabled
UpdateBody(p) ==
  /\ At(p, "update", "gate")
  /\ Step(calls, p, [calls[p] EXCEPT !.pc = "getState", !.waiting = ~isEnabled(cached)])
  /\ UNCHANGED <<sequences, cached, events, storage, writes>>

\* delete past its gate: returns when the topic is absent, else calls getState
DeleteBody(p) ==
  /\ At(p, "delete", "gate")
  /\ Step(calls, p,
          IF deleteReturns(sequences, calls[p].topic)
          THEN [calls[p] EXCEPT !.pc = "done", !.ret = "ok", !.outcome = "absent"]
          ELSE [calls[p] EXCEPT !.pc = "getState", !.waiting = ~isEnabled(cached)])
  /\ UNCHANGED <<sequences, cached, events, storage, writes>>

\* getState past its gate: the lookup. getState's promise settles here,
\* rejected or with the record; get, update or delete, which await it, resume
\* in a later run
GetStateBody(p) ==
  /\ calls[p].pc = "getState"
  /\ ~calls[p].waiting
  /\ LET c == calls[p]
         found == getState(sequences, c.topic)
     IN Step(calls, p,
          IF Len(found) = 0
          THEN [c EXCEPT !.pc = IF c.fn = "get" THEN "return" ELSE "throw",
                         !.outcome = "NoMatchingTopic"]
          ELSE IF c.fn = "get"
          THEN [c EXCEPT !.pc = "return", !.outcome = "value", !.val = found]
          ELSE [c EXCEPT !.pc = IF c.fn = "update" THEN "merge" ELSE "remove",
                         !.loc = found])
  /\ UNCHANGED <<sequences, cached, events, storage, writes>>

\* get after `await this.getState(topic)`: returns the record, or fails as
\* getState did
GetReturn(p) ==
  /\ At(p, "get", "return")
  /\ Step(calls, p, [calls[p] EXCEPT !.pc = "done", !.ret = calls[p].outcome])
  /\ UNCHANGED <<sequences, cached, events, storage, writes>>

\* update or delete after an `await this.getState(topic)` that rejected: the
\* method ends there with getState's error
Rethrow(p) ==
  /\ calls[p].fn \in {"update", "delete"}
  /\ calls[p].pc = "throw"
  /\ ~calls[p].waiting
  /\ Step(calls, p, [calls[p] EXCEPT !.pc = "done",
                                     !.ret = settle(calls[p], calls[p].outcome)])
  /\ UNCHANGED <<sequences, cached, events, storage, writes>>

\* update after getState: merge, store, emit updated
UpdateStore(p) ==
  /\ At(p, "update", "merge")
  /\ LET c == calls[p]
         sequence == spread(c.loc[1], c.arg[1])
         ev == [type |-> "updated", topic |-> c.topic, sequence |-> sequence,
                update |-> c.arg[1]]
     IN /\ sequences' = mapSet(sequences, c.topic, sequence)
        /\ events' = Append(events, ev)
        /\ writes' = listeners(ev, writes, sequences')
        /\ Step(calls, p, [c EXCEPT !.pc = "done", !.outcome = "updated",
                                    !.ret = settle(c, "ok")])
  /\ UNCHANGED <<cached, storage>>

\* delete after getState: remove, emit deleted
DeleteRemove(p) ==
  /\ At(p, "delete", "remove")
  /\ LET c == calls[p]
         ev == [type |-> "deleted", topic |-> c.topic, sequence |-> c.loc[1],
                reason |-> c.reason]
     IN /\ sequences' = mapDelete(sequences, c.topic)
        /\ events' = Append(events, ev)
        /\ writes' = listeners(ev, writes, sequences')
        /\ Step(calls, p, [c EXCEPT !.pc = "done", !.outcome = "deleted", !.ret = "ok"])
  /\ UNCHANGED <<cached, storage>>

----------------------------------------------------------------------------

Next ==
  \/ \E p \in Procs : CallInit(p)
  \/ \E p \in Procs : RestoreRead(p)
  \/ \E p \in Procs : RestoreFail(p)
  \/ \E p \in Procs : RestoreDone(p)
  \/ \E p \in Procs : InitReturn(p)
  \/ \E p \in Procs, t \in Called : CallSet(p, t)
  \/ \E p \in Procs, t \in Called : CallGet(p, t)
  \/ \E p \in Procs, t \in Called, u \in Patches : CallUpdate(p, t, u)
  \/ \E p \in Procs, t \in Called, r \in Reasons : CallDelete(p, t, r)
  \/ \E p \in Procs : SetBody(p)
  \/ \E p \in Procs : GetBody(p)
  \/ \E p \in Procs : UpdateBody(p)
  \/ \E p \in Procs : DeleteBody(p)
  \/ \E p \in Procs : GetStateBody(p)
  \/ \E p \in Procs : GetReturn(p)
  \/ \E p \in Procs : Rethrow(p)
  \/ \E p \in Procs : UpdateStore(p)
  \/ \E p \in Procs : DeleteRemove(p)
  \/ \E i \in 1..MaxCalls : WriteDone(i)
  \/ \E i \in 1..MaxCalls : WriteFail(i)

Spec == Init /\ [][Next]_vars

\* the store with a storage that fails no call and completes the setItem calls
\* in the order they were issued
NextInOrder ==
  \/ \E p \in Procs : CallInit(p)
  \/ \E p \in Procs : RestoreRead(p)
  \/ \E p \in Procs : RestoreDone(p)
  \/ \E p \in Procs : InitReturn(p)
  \/ \E p \in Procs, t \in Called : CallSet(p, t)
  \/ \E p \in Procs, t \in Called : CallGet(p, t)
  \/ \E p \in Procs, t \in Called, u \in Patches : CallUpdate(p, t, u)
  \/ \E p \in Procs, t \in Called, r \in Reasons : CallDelete(p, t, r)
  \/ \E p \in Procs : SetBody(p)
  \/ \E p \in Procs : GetBody(p)
  \/ \E p \in Procs : UpdateBody(p)
  \/ \E p \in Procs : DeleteBody(p)
  \/ \E p \in Procs : GetStateBody(p)
  \/ \E p \in Procs : GetReturn(p)
  \/ \E p \in Procs : Rethrow(p)
  \/ \E p \in Procs : UpdateStore(p)
  \/ \E p \in Procs : DeleteRemove(p)
  \/ WriteDone(1)

InOrderSpec == Init /\ [][NextInOrder]_vars

\* the next run of the call on slot p, from one await to the next
Resume(p) ==
  \/ RestoreRead(p) \/ RestoreFail(p) \/ RestoreDone(p) \/ InitReturn(p)
  \/ SetBody(p) \/ GetBody(p) \/ UpdateBody(p) \/ DeleteBody(p)
  \/ GetStateBody(p) \/ GetReturn(p) \/ Rethrow(p)
  \/ UpdateStore(p) \/ DeleteRemove(p)

\* the event loop runs every continuation whose promise has settled, and the
\* storage read of init settles (resolved or rejected)
FairSpec == Spec /\ \A p \in Procs : WF_vars(Resume(p))

----------------------------------------------------------------------------
\* Helpers of the properties

\* slot p takes a step that leaves position pc
Leaves(p, pc) == calls[p].pc = pc /\ calls'[p].pc # pc

\* the promise of slot p's call settles in this step
Ends(p) == InProgress(p) /\ ~InProgress(p)' /\ last'.slot = p

\* the step in which slot p's call, after its awaits, returns or fails
Returns(p) == calls[p].pc \in {"return", "throw"} /\ calls'[p].pc = "ended"

\* no call was issued after the one on slot p
NoLaterCall(p) == \A q \in Procs : q > p => calls[q].pc = "idle"

TopicSet(m) == {m[i].key : i \in 1..Len(m)}

\* the topics of the records a snapshot holds
SnapshotTopics(persisted) ==
  {persisted.items[i].topic :
     i \in {j \in 1..Len(persisted.items) : "topic" \in DOMAIN persisted.items[j]}}

NonEmptySnapshot == storage.defined /\ Len(storage.items) > 0

\* the snapshot is a list and every element of it is a record
ListOfRecords(persisted) ==
  persisted.array /\ \A i \in 1..Len(persisted.items) : ~throws(persisted.items[i])

\* the entries of every topic but t, in the map's order
Others(m, t) == SelectSeq(m, LAMBDA e : e.key # t)

----------------------------------------------------------------------------
\* C1: once set(T, S) has returned, a following get(T) returns a value equal
\* to S.  Stated for the plain sequence and a topic that set did not find in
\* the map: get(T) is issued when the set has returned and no call is in
\* progress, and no call is issued after it.
C1_SetThenGet ==
  (/\ last.op = "get"
   /\ Len(last.prev) = 1
   /\ last.prev[1].op = "set" /\ last.prev[1].topic = last.topic
   /\ last.prev[1].outcome = "created"
   /\ NoLaterCall(last.slot))
  => (last.ret = "value" /\ last.val = last.prev[1].arg)

\* C2: a get(T) issued while init is reading a snapshot that holds T does not
\* fail with NoMatchingTopic: it stays blocked as long as the read is pending.
C2_GetBlockedDuringRestore ==
  (/\ last.op = "get"
   /\ last.inRestore # 0
   /\ calls[last.inRestore].pc = "read")
  => last.ret # "NoMatchingTopic"

\* the step in which storage.getItem resolves for the init on slot p
ReadResolves(p) ==
  /\ calls[p].fn = "init"
  /\ Leaves(p, "read")
  /\ calls'[p].outcome # "failed"

\* the step in which storage.getItem rejects for the init on slot p
ReadRejects(p) ==
  /\ calls[p].fn = "init"
  /\ Leaves(p, "read")
  /\ calls'[p].outcome = "failed"

DistinctTopics(persisted) ==
  Cardinality(SnapshotTopics(persisted)) = Len(persisted.items)

\* C3: init with a snapshot of N records (distinct topics) and an empty map:
\* when the read resolves the map holds exactly those N records, in order,
\* exactly one enabled event and nothing else is emitted, no write is issued;
\* init's other steps change neither the map, the events nor the writes, and
\* init returns normally.
C3_RestoreIntoEmptyMap ==
  [][\A p \in Procs :
       /\ (ReadResolves(p) /\ NonEmptySnapshot /\ ListOfRecords(storage)
             /\ DistinctTopics(storage) /\ length(sequences) = 0)
          => /\ values(sequences') = storage.items
             /\ TopicSet(sequences') = SnapshotTopics(storage)
             /\ length(sequences') = Len(storage.items)
             /\ events' = Append(events, [type |-> "enabled"])
             /\ writes' = writes
             /\ calls'[p].pc = "enabling"
       /\ (calls[p].fn = "init" /\ Leaves(p, "enabling"))
          => (calls'[p].pc = "return" /\ UNCHANGED <<sequences, events, writes>>)
       /\ (calls[p].fn = "init" /\ Returns(p))
          => (Ends(p) /\ last'.ret = "ok" /\ UNCHANGED <<sequences, events, writes>>)
       /\ (calls[p].pc = "idle" /\ calls'[p].fn = "init")
          => UNCHANGED <<sequences, events, writes>>
    ]_vars

C3_Witness ==
  \E p \in Procs :
    /\ last.slot = p /\ last.op = "init" /\ last.outcome = "restored" /\ last.ret = "ok"
    /\ values(sequences) = <<[topic |-> "t1", v |-> 1], [topic |-> "t2", v |-> 1]>>
    /\ events = <<[type |-> "enabled"]>>
    /\ writes = <<>>

\* a call that has passed the gate of getState and reads the map in its
\* next run
Reads(q) ==
  /\ calls[q].fn \in {"get", "update", "delete"}
  /\ calls[q].pc = "getState"
  /\ ~calls[q].waiting

\* C4: the step that loads the snapshot, taken while a call is about to read
\* the map, adds to the map either no topic or, to an empty map, every topic
\* of the snapshot: the call never reads a proper non-empty part of it.
C4_NoPartialRestore ==
  [][\A p \in Procs :
       (/\ calls[p].fn = "init" /\ Leaves(p, "read")
        /\ \E q \in Procs : Reads(q) /\ Reads(q)')
       => LET added == TopicSet(sequences') \ TopicSet(sequences)
          IN \/ added = {}
             \/ /\ added = SnapshotTopics(storage)
                /\ TopicSet(sequences) = {}
    ]_vars

\* C5: get(T) and update(T, patch) whose lookup finds T absent end with
\* NoMatchingTopic in their next run, and neither the lookup nor that run
\* changes the map, the events or the writes in flight.
C5_AbsentTopicFails ==
  [][\A p \in Procs :
       /\ (/\ calls[p].op \in {"get", "update"}
           /\ calls[p].fn = calls[p].op
           /\ Leaves(p, "getState")
           /\ ~has(sequences, calls[p].topic))
          => /\ calls'[p].pc \in {"return", "throw"}
             /\ calls'[p].outcome = "NoMatchingTopic"
             /\ UNCHANGED <<sequences, events, writes>>
       /\ (/\ calls[p].op \in {"get", "update"}
           /\ calls[p].fn = calls[p].op
           /\ calls[p].outcome = "NoMatchingTopic"
           /\ Returns(p))
          => /\ Ends(p)
             /\ last'.ret = "NoMatchingTopic"
             /\ UNCHANGED <<sequences, events, writes>>
    ]_vars

C5_Witness ==
  /\ last.op = "update" /\ last.ret = "NoMatchingTopic"
  /\ ~has(sequences, last.topic)
  /\ length(sequences) = 1

\* C6: update(T, patch) with T in the map under the record R it looked up
\* stores R with the patch's fields overwritten and R's other fields kept,
\* leaves every other entry and the order of the map as they were, and emits
\* one updated event with T, the merged record and the patch.
C6_UpdateMerges ==
  [][\A p \in Procs :
       (/\ calls[p].fn = "update"
        /\ Leaves(p, "merge")
        /\ mapGet(sequences, calls[p].topic) = calls[p].loc)
       => LET T == calls[p].topic
              R == calls[p].loc[1]
              patch == calls[p].arg[1]
              M == mapGet(sequences', T)
          IN /\ Len(M) = 1
             /\ DOMAIN M[1] = DOMAIN R \cup DOMAIN patch
             /\ \A f \in DOMAIN patch : M[1][f] = patch[f]
             /\ \A f \in DOMAIN R \ DOMAIN patch : M[1][f] = R[f]
             /\ Others(sequences', T) = Others(sequences, T)
             /\ topics(sequences') = topics(sequences)
             /\ events' = Append(events, [type |-> "updated", topic |-> T,
                                          sequence |-> M[1], update |-> patch])
    ]_vars

C6_Witness ==
  /\ last.op = "update" /\ last.outcome = "updated" /\ last.arg = <<[w |-> 1]>>
  /\ values(sequences) = <<[topic |-> "t1", v |-> 1, w |-> 1],
                           [topic |-> "t2", v |-> 1]>>

\* the last of the events that tell of a change of the map's topics, if any
LastChange ==
  LET ks == {i \in DOMAIN events :
               events[i].type \in {"enabled", "updated", "deleted"}}
  IN IF ks = {} THEN <<>>
     ELSE <<events[CHOOSE i \in ks : \A j \in ks : j <= i]>>

\* nothing has stored or restored a record since T was removed
RemovedLast(T) ==
  /\ Len(LastChange) = 1
  /\ LastChange[1].type = "deleted" /\ LastChange[1].topic = T

\* C7: delete(T, reason) with T in the map under the record it looked up
\* removes T, leaves the other entries as they were, emits one deleted event
\* with T, that record and the reason, and returns; a get(T) issued after the
\* delete returned (no other call in between, and no update or restore
\* started earlier storing a record since) fails with NoMatchingTopic.
C7_DeleteRemoves ==
  /\ [][\A p \in Procs :
          (/\ calls[p].fn = "delete"
           /\ Leaves(p, "remove")
           /\ mapGet(sequences, calls[p].topic) = calls[p].loc)
          => LET T == calls[p].topic
             IN /\ ~has(sequences', T)
                /\ sequences' = Others(sequences, T)
                /\ length(sequences') = length(sequences) - 1
                /\ events' = Append(events, [type |-> "deleted", topic |-> T,
                                             sequence |-> calls[p].loc[1],
                                             reason |-> calls[p].reason])
                /\ Ends(p) /\ last'.ret = "ok"
       ]_vars
  /\ [](  (/\ last.op = "get"
           /\ Len(last.prev) = 1
           /\ last.prev[1].op = "delete" /\ last.prev[1].outcome = "deleted"
           /\ last.prev[1].topic = last.topic
           /\ NoLaterCall(last.slot)
           /\ RemovedLast(last.topic))
          => last.ret = "NoMatchingTopic")

C7_Witness ==
  /\ last.op = "get" /\ last.ret = "NoMatchingTopic"
  /\ Len(last.prev) = 1
  /\ last.prev[1].op = "delete" /\ last.prev[1].outcome = "deleted"
  /\ last.prev[1].topic = last.topic
  /\ RemovedLast(last.topic)
  /\ values(sequences) = <<[topic |-> "t2", v |-> 1]>>

\* C8: delete(T, reason) with T absent returns without error in the step
\* after its gate, and that step changes neither the map, the events nor the
\* writes in flight.
C8_DeleteAbsentNoop ==
  [][\A p \in Procs :
       (/\ calls[p].fn = "delete"
        /\ Leaves(p, "gate")
        /\ ~has(sequences, calls[p].topic))
       => /\ Ends(p)
          /\ last'.ret = "ok"
          /\ UNCHANGED <<sequences, events, writes>>
    ]_vars

C8_Witness ==
  /\ last.op = "delete" /\ last.outcome = "absent" /\ last.ret = "ok"
  /\ ~has(sequences, last.topic)

\* C9: when init's read resolves with a non-empty snapshot and the map is not
\* empty, the map and this.cached stay as they were, nothing is emitted, no
\* call starts to wait, and init returns normally in its next run, which
\* changes nothing either.
C9_RestoreConflict ==
  [][\A p \in Procs :
       /\ (ReadResolves(p) /\ NonEmptySnapshot /\ length(sequences) > 0)
          => /\ sequences' = sequences
             /\ cached' = cached
             /\ events' = events
             /\ \A q \in Procs : calls'[q].waiting = calls[q].waiting
             /\ calls'[p].pc = "return" /\ calls'[p].outcome = "conflict"
       /\ (calls[p].fn = "init" /\ calls[p].outcome = "conflict" /\ Returns(p))
          => /\ Ends(p)
             /\ last'.ret = "ok"
             /\ UNCHANGED <<sequences, cached, events, writes>>
    ]_vars

C9_Witness ==
  /\ last.op = "init" /\ last.outcome = "conflict" /\ last.ret = "ok"
  /\ length(sequences) > 0
  /\ NonEmptySnapshot

\* C10: when init's read rejects, the map and the events stay as they were
\* and this.cached is empty, and init returns normally in its next run; calls
\* made or resumed next do not wait at the gate.
C10_RestoreFailureNonFatal ==
  [][/\ \A p \in Procs :
          /\ ReadRejects(p)
             => /\ calls'[p].pc = "return"
                /\ sequences' = sequences
                /\ events' = events
                /\ cached' = <<>>
          /\ (calls[p].fn = "init" /\ calls[p].outcome = "failed" /\ Returns(p))
             => /\ Ends(p)
                /\ last'.ret = "ok"
                /\ UNCHANGED <<sequences, cached, events, writes>>
     /\ (last.op = "init" /\ last.outcome = "failed")
          => \A q \in Procs : ~calls'[q].waiting
    ]_vars

\* ---- persistence and the events of the store ----

\* this step publishes one event, of one of the given types
Publishes(types) ==
  /\ Len(events') = Len(events) + 1
  /\ events'[Len(events')].type \in types

Count(evs, types) == Cardinality({i \in DOMAIN evs : evs[i].type \in types})

\* C11: every step that publishes created, updated or deleted issues exactly
\* one write, whose value is the list of the map's values at that moment; for
\* created the list holds the record just set, for deleted it has no record
\* under the topic just removed.
C11_PublishThenWrite ==
  [][Publishes({"created", "updated", "deleted"})
       => LET e == events'[Len(events')]
          IN /\ writes' = Append(writes, values(sequences'))
             /\ e.type = "created"
                  => \E i \in DOMAIN sequences' :
                        sequences'[i].value = e.sequence
             /\ e.type = "deleted" => ~has(sequences', e.topic)
    ]_vars

\* C12: the sync events published are as many as the setItem calls that
\* resolved; a step publishes sync exactly when a setItem call resolves, that
\* call then leaves the writes in flight and the storage holds its value; a
\* step that issues a write, or in which a setItem call rejects, publishes
\* nothing of its own.
C12_SyncPerWrite ==
  /\ [](Count(events, {"sync"}) = tally.written)
  /\ [][/\ Publishes({"sync"}) <=> tally'.written = tally.written + 1
        /\ Publishes({"sync"})
             => /\ storage'.defined
                /\ \E i \in DOMAIN writes :
                      /\ writes' = RemoveAt(writes, i)
                      /\ storage'.items = writes[i]
        /\ (Len(writes') < Len(writes) /\ tally'.written = tally.written)
             => events' = events /\ storage' = storage
        /\ Len(writes') > Len(writes) => ~Publishes({"sync"})
       ]_vars

C12_Witness ==
  /\ Count(events, {"sync"}) = 1
  /\ tally.written = 1
  /\ Len(writes) = 1
  /\ storage = [defined |-> TRUE, array |-> TRUE, items |-> <<[topic |-> "t2", v |-> 1]>>]

\* ---- init called again ----

\* C13: over the life of the instance enabled is published at most once,
\* which is also how often the map is populated from the snapshot.
C13_EnabledAtMostOnce == Count(events, {"enabled"}) <= 1

\* C14: an init() called after an earlier init() restored a snapshot (the
\* last call to end before it was that init, or a delete that removed a
\* record, which only a restore can have put in the map) does not restore
\* again: the step in which its read resolves leaves the map and the events
\* as they are, and does not put back the topic that the delete removed.
C14_LaterInitLeavesMap ==
  [][\A p \in Procs :
       (ReadResolves(p) /\ Len(calls[p].prev) = 1)
       => LET before == calls[p].prev[1]
          IN /\ (before.op = "init" /\ before.outcome = "restored")
                  => sequences' = sequences /\ events' = events
             /\ (before.op = "delete" /\ before.outcome = "deleted")
                  => /\ sequences' = sequences /\ events' = events
                     /\ ~has(sequences', before.topic)
    ]_vars

\* ---- calls running side by side ----

\* C15: a set or a delete never ends with an error.
C15_SetDeleteNeverFail ==
  last.op \in {"set", "delete"} => last.ret = "ok"

\* ---- the gate ----

\* C16: a call waits for enabled only while an init is running that can
\* publish it; and, the continuations being run and the read settling, every
\* call in progress ends (returns or fails).
C16_GateNeverDeadlocks ==
  /\ [](\A p \in Procs :
          calls[p].waiting => \E q \in Procs : calls[q].fn = "init" /\ Running(q))
  /\ \A p \in Procs : InProgress(p) ~> ~InProgress(p)

\* ---- set on a topic in the map ----

\* C17: set(T, S) that finds T in the map goes on as update(T, S): the step
\* after set's gate publishes nothing (no created), leaves the map, starts
\* the update and returns; the
\* update's gate and lookup publish nothing; and its store, T still holding
\* the record R it looked up, leaves under T the merge of R and S (S's fields
\* win), the same topics in the same number, and publishes one updated event.
C17_SetOnPresentUpdates ==
  [][\A p \in Procs :
       LET T == calls[p].topic
           S == calls[p].arg[1]
           delegated == calls[p].op = "set" /\ calls[p].fn = "update"
       IN /\ (/\ calls[p].fn = "set" /\ calls[p].pc = "gate"
              /\ calls'[p] # calls[p]
              /\ has(sequences, T))
             => /\ calls'[p].fn = "update" /\ calls'[p].arg = <<S>>
                /\ calls'[p].topic = T /\ calls'[p].pc = "gate"
                /\ Ends(p) /\ last'.ret = "ok"
                /\ events' = events /\ writes' = writes
                /\ sequences' = sequences
          /\ (delegated /\ (Leaves(p, "gate") \/ Leaves(p, "getState")))
             => events' = events /\ sequences' = sequences
          /\ (/\ delegated
              /\ Leaves(p, "merge")
              /\ mapGet(sequences, T) = calls[p].loc)
             => LET R == calls[p].loc[1]
                    M == mapGet(sequences', T)
                IN /\ Len(M) = 1
                   /\ DOMAIN M[1] = DOMAIN R \cup DOMAIN S
                   /\ \A f \in DOMAIN S : M[1][f] = S[f]
                   /\ \A f \in DOMAIN R \ DOMAIN S : M[1][f] = R[f]
                   /\ topics(sequences') = topics(sequences)
                   /\ length(sequences') = length(sequences)
                   /\ Others(sequences', T) = Others(sequences, T)
                   /\ events' = Append(events,
                                       [type |-> "updated", topic |-> T,
                                        sequence |-> M[1], update |-> S])
    ]_vars

C17_Witness ==
  /\ last.op = "set" /\ last.outcome = "delegated"
  /\ \A p \in Procs : ~Running(p)
  /\ Count(events, {"updated"}) = 1
  /\ Count(events, {"created"}) = 0
  /\ values(sequences) = <<[topic |-> "t1", v |-> 2], [topic |-> "t2", v |-> 1]>>

\* ---- update and delete side by side ----

\* C18: update stores the merge of its patch with the record that is in the
\* map under T at the moment of the store: patches of two updates running
\* side by side both stay, and an update does not put T back once a delete
\* has removed it.
C18_UpdateAtomic ==
  [][\A p \in Procs :
       (calls[p].fn = "update" /\ Leaves(p, "merge"))
       => LET T == calls[p].topic
              now == mapGet(sequences, T)
          IN /\ Len(now) = 1
             /\ mapGet(sequences', T) = <<spread(now[1], calls[p].arg[1])>>
    ]_vars

\* C19: every deleted event for T is published by a step that takes T out of
\* the map, so there are never more deleted events for T than removals of T.
C19_DeletedPerRemoval ==
  [][Publishes({"deleted"})
       => LET T == events'[Len(events')].topic
          IN has(sequences, T) /\ ~has(sequences', T)
    ]_vars

\* ---- storage and map at rest ----

\* an init() has returned, no call and no update started by set has a run to
\* go, and no setItem is pending
Quiescent ==
  /\ tally.inited
  /\ \A p \in Procs : ~Running(p)
  /\ writes = <<>>

\* C20: with a storage that fails no call and completes the writes in the
\* order of their issue, the snapshot in storage, when it is a list of records
\* (the empty list when there is none), is the list of the map's values in
\* every state at rest.
C20_WriteThrough ==
  (Quiescent /\ ListOfRecords(storage)) => storage.items = values(sequences)

====
